---- MODULE Spec2Model ----
(***************************************************************************)
(* A model of tidy_inbox.py: the grouping loop of group_emails and its     *)
(* post-pass filter, main's handling of the grouped result, sort_groups,   *)
(* and the filter-query / search-URL generation of main.                   *)
(*                                                                         *)
(* Text is a sequence of tokens (strings).  A raw header value is given by *)
(* what email.header.decode_header returns for it: a sequence of parts,    *)
(* each a payload with its declared charset.  A timestamp is an integer.   *)
(* Python's None is the empty sequence and a present value x is <<x>>.     *)
(***************************************************************************)
EXTENDS Integers, Sequences, FiniteSets, TLC

VARIABLES
    messages,          \* group_emails: the messages the loop has consumed so far
    groups,            \* group_emails: the defaultdict, sender_email -> aggregate
    filtered_groups,   \* group_emails: the returned mapping
    pc,                \* group_emails/main: "loop", "raised", "returned", "done"
    outcome,           \* main: which branch main ended in
    items,             \* sort_groups: groups.items(), in dict order
    criteria,          \* sort_groups: the criteria argument
    sorted_items,      \* sort_groups: the returned list
    spc,               \* sort_groups: "call", "sorted"
    query,             \* main: args.query
    sender_email,      \* main: the sender of the entry being displayed
    full_filter_string,\* main: f"{args.query} {filter_query}"
    search_url,        \* main: prefix + quote_plus(full_filter_string)
    qpc                \* main: "entry", "generated"

vars == <<messages, groups, filtered_groups, pc, outcome, items, criteria,
          sorted_items, spc, query, sender_email, full_filter_string,
          search_url, qpc>>

groupVars == <<messages, groups, filtered_groups, pc, outcome>>
sortVars  == <<items, criteria, sorted_items, spc>>
queryVars == <<query, sender_email, full_filter_string, search_url, qpc>>

----------------------------------------------------------------------------
(* Bounds of the model *)

MaxMsgs == 2
MaxGroups == 3
MaxDate == 3
MaxQueryLen == 3

----------------------------------------------------------------------------
(* Python values *)

None == << >>
Some(x) == <<x>>

----------------------------------------------------------------------------
(* Header values: the parts decode_header yields *)

Part(data, charset, isbytes, valid) ==
    [data |-> data, charset |-> charset, isbytes |-> isbytes, valid |-> valid]

\* charsets bytes.decode knows; "" stands for a part with no declared charset
KnownCharsets == {"utf-8", "iso-8859-1"}

\* 'Bob <a@x.com>'
FromBobLower == << Part(<<"Bob", " ", "<", "a@x.com", ">">>, "", FALSE, TRUE) >>
\* 'Bob <A@x.com>'
FromBobUpper == << Part(<<"Bob", " ", "<", "A@x.com", ">">>, "", FALSE, TRUE) >>
\* '=?utf-8?q?Bobby?= =?iso-8859-1?q?<a@x.com>?='
FromBobbyEncoded ==
    << Part(<<"Bobby">>, "utf-8", TRUE, TRUE),
       Part(<<"<", "a@x.com", ">">>, "iso-8859-1", TRUE, TRUE) >>
\* ''
FromEmpty == << Part(<< >>, "", FALSE, TRUE) >>
\* '<>'
FromAngleOnly == << Part(<<"<", ">">>, "", FALSE, TRUE) >>
\* '=?x-unknown?q?Bob?='
FromBadCharset == << Part(<<"Bob">>, "x-unknown", TRUE, TRUE) >>
\* '=?utf-8?q?Bob?= <a@x.com>': the unencoded part comes back as bytes
FromMixed ==
    << Part(<<"Bob">>, "utf-8", TRUE, TRUE),
       Part(<<" ", "<", "a@x.com", ">">>, "", TRUE, TRUE) >>
\* 's1'
SubjectPlain == << Part(<<"s1">>, "", FALSE, TRUE) >>
\* '=?utf-8?b?/w==?=': bytes that are not utf-8
SubjectMalformed == << Part(<<"s2">>, "utf-8", TRUE, FALSE) >>

NoValue == << >>

\* A Date header: absent, unparsable, or a wall-clock time with a UTC offset
DateRec(present, parsable, wall, offset) ==
    [present |-> present, parsable |-> parsable, wall |-> wall, offset |-> offset]
DateAbsent == DateRec(FALSE, FALSE, 0, 0)
DateGarbage == DateRec(TRUE, FALSE, 0, 0)
DateEarlyWall == DateRec(TRUE, TRUE, 2, 0)   \* 02:00 +0000, the instant 2
DateLateWall == DateRec(TRUE, TRUE, 3, 2)    \* 03:00 +0200, the instant 1

Msg(hf, f, hs, s, d, u) ==
    [has_from |-> hf, from |-> f, has_subject |-> hs, subject |-> s,
     date |-> d, unsub |-> u]

\* Messages with a usable From header, in every combination of the other headers
UsableMsgs ==
    { Msg(TRUE, f, s # NoValue, s, d, u) :
        f \in {FromBobLower, FromBobUpper, FromBobbyEncoded},
        s \in {NoValue, SubjectPlain},
        d \in {DateAbsent, DateGarbage, DateEarlyWall, DateLateWall},
        u \in BOOLEAN }

\* Messages without a sender key, and messages whose headers do not decode
SenderlessMsgs ==
    { Msg(FALSE, NoValue, TRUE, SubjectPlain, DateEarlyWall, TRUE),
      Msg(FALSE, NoValue, FALSE, NoValue, DateAbsent, FALSE),
      Msg(TRUE, FromEmpty, TRUE, SubjectPlain, DateGarbage, TRUE),
      Msg(TRUE, FromAngleOnly, TRUE, SubjectPlain, DateEarlyWall, FALSE) }

UndecodableMsgs ==
    { Msg(TRUE, FromBadCharset, TRUE, SubjectPlain, DateEarlyWall, FALSE),
      Msg(TRUE, FromMixed, TRUE, SubjectPlain, DateEarlyWall, FALSE),
      Msg(TRUE, FromBobLower, TRUE, SubjectMalformed, DateGarbage, FALSE),
      Msg(FALSE, NoValue, TRUE, SubjectMalformed, DateEarlyWall, FALSE) }

Msgs == UsableMsgs \cup SenderlessMsgs \cup UndecodableMsgs

----------------------------------------------------------------------------
(* decode_email_header *)

RECURSIVE JoinSpace(_)
JoinSpace(parts) ==
    IF parts = << >> THEN << >>
    ELSE IF Len(parts) = 1 THEN parts[1]
    ELSE parts[1] \o <<" ">> \o JoinSpace(Tail(parts))

\* part[0].decode(part[1]) raises for an unknown charset or malformed bytes
DecodeRaises(part) ==
    /\ part.charset # ""
    /\ (part.charset \notin KnownCharsets \/ ~part.valid)

\* ' '.join raises TypeError when a part without charset was appended as bytes
JoinRaises(part) == part.charset = "" /\ part.isbytes

decode_email_header(header) ==
    IF \E i \in 1..Len(header) : DecodeRaises(header[i]) \/ JoinRaises(header[i])
    THEN [raised |-> TRUE, text |-> << >>]
    ELSE [raised |-> FALSE,
          text |-> JoinSpace([i \in 1..Len(header) |-> header[i].data])]

----------------------------------------------------------------------------
(* Sender extraction *)

FirstIndex(text, tok, from) ==
    IF \E i \in from..Len(text) : text[i] = tok
    THEN CHOOSE i \in from..Len(text) :
            text[i] = tok /\ \A j \in from..(i-1) : text[j] # tok
    ELSE 0

\* re.compile(r'<(.*?)>').search: the first '<' and the nearest '>' after it
sender_email_pattern(text) ==
    LET lt == FirstIndex(text, "<", 1)
        gt == IF lt = 0 THEN 0 ELSE FirstIndex(text, ">", lt + 1)
    IN  IF lt = 0 \/ gt = 0 THEN [found |-> FALSE, group1 |-> << >>]
        ELSE [found |-> TRUE, group1 |-> SubSeq(text, lt + 1, gt - 1)]

\* email.utils.parseaddr(...)[1]: the angle-bracketed address, else the first word
parseaddr(text) ==
    LET m == sender_email_pattern(text)
    IN  IF m.found THEN m.group1
        ELSE IF text = << >> THEN << >>
        ELSE <<text[1]>>

UnknownSender == <<"Unknown", " ", "Sender">>
NoSubject == <<"No", " ", "Subject">>

\* The header loop of one message: what it leaves in the loop's locals
HeaderLoop(msg) ==
    LET fromDec == decode_email_header(msg.from)
        subjDec == decode_email_header(msg.subject)
        sender == IF msg.has_from THEN fromDec.text ELSE UnknownSender
        addr == parseaddr(sender)
        match == sender_email_pattern(sender)
    IN  [raised |-> \/ (msg.has_from /\ fromDec.raised)
                    \/ (msg.has_subject /\ subjDec.raised),
         sender |-> sender,
         sender_email |->
            IF ~msg.has_from THEN None
            ELSE IF addr # << >> THEN Some(addr)
            ELSE IF match.found THEN Some(match.group1)
            ELSE Some(sender),
         subject |-> IF msg.has_subject THEN subjDec.text ELSE NoSubject,
         date_str |-> msg.date,
         msg_has_list_unsubscribe |-> msg.unsub]

\* `if not sender_email`: None or the empty string
NotSenderEmail(se) == se = None \/ se[1] = << >>

----------------------------------------------------------------------------
(* Date parsing *)

\* `if date_str:` and date_parser.parse not raising
DateParses(d) == d.present /\ d.parsable

\* date_parser.parse(date_str).astimezone(timezone.utc)
ParseDateUtc(d) == d.wall - d.offset

----------------------------------------------------------------------------
(* group_emails *)

DefaultGroup ==
    [count |-> 0, ids |-> << >>, latest_date |-> None, subject |-> None,
     sender_display |-> None, has_list_unsubscribe |-> FALSE]

\* Variant: the aggregate is created afresh on every message of a sender
GroupOfFresh(g, key) == DefaultGroup

GroupOf(g, key) == IF key \in DOMAIN g THEN g[key] ELSE DefaultGroup

\* Variant: `>=` in place of `>`, so the last of equal dates wins
IsLaterOrEqual(msg_date, latest_date) ==
    latest_date = None \/ msg_date >= latest_date[1]

\* `latest_date is None or msg_date > latest_date`
IsLater(msg_date, latest_date) ==
    latest_date = None \/ msg_date > latest_date[1]

\* Lines 196-211: the aggregate after one attributed message
UpdateGroup(cur, id, r) ==
    LET counted == [cur EXCEPT
                      !.count = @ + 1,
                      !.ids = Append(@, id),
                      !.has_list_unsubscribe = @ \/ r.msg_has_list_unsubscribe]
    IN  IF DateParses(r.date_str)
           /\ IsLater(ParseDateUtc(r.date_str), counted.latest_date)
        THEN [counted EXCEPT
                !.latest_date = Some(ParseDateUtc(r.date_str)),
                !.subject = Some(r.subject),
                !.sender_display = Some(r.sender)]
        ELSE counted

\* One iteration of `for msg in messages`
ProcessMessage ==
    /\ pc = "loop"
    /\ Len(messages) < MaxMsgs
    /\ \E msg \in Msgs :
        LET r == HeaderLoop(msg)
            id == Len(messages) + 1
        IN  /\ messages' = Append(messages, msg)
            /\ IF r.raised
               THEN pc' = "raised" /\ UNCHANGED groups
               ELSE IF NotSenderEmail(r.sender_email)
               THEN UNCHANGED <<pc, groups>>
               ELSE LET key == r.sender_email[1]
                    IN  /\ groups' =
                              [k \in DOMAIN groups \cup {key} |->
                                 IF k = key
                                 THEN UpdateGroup(GroupOf(groups, key), id, r)
                                 ELSE groups[k]]
                        /\ UNCHANGED pc
    /\ UNCHANGED <<filtered_groups, outcome, sortVars, queryVars>>

\* Variant: `and` in place of `or`
RetainedBoth(data) == data.has_list_unsubscribe /\ data.count > 1

\* `data['has_list_unsubscribe'] or data['count'] > 1`
Retained(data) == data.has_list_unsubscribe \/ data.count > 1

\* The end of the loop: the post-pass filter and the return
FilterGroups ==
    /\ pc = "loop"
    /\ filtered_groups' =
          [k \in {s \in DOMAIN groups : Retained(groups[s])} |-> groups[k]]
    /\ pc' = "returned"
    /\ UNCHANGED <<messages, groups, outcome, sortVars, queryVars>>

\* main: what it does with the fetched messages and the grouped result
MainOutcome(msgs, newsletter_groups) ==
    IF msgs = << >> THEN "no_emails"
    ELSE IF DOMAIN newsletter_groups = {} THEN "no_newsletters"
    ELSE "listed"

MainCheck ==
    /\ pc = "returned"
    /\ outcome' = MainOutcome(messages, filtered_groups)
    /\ pc' = "done"
    /\ UNCHANGED <<messages, groups, filtered_groups, sortVars, queryVars>>

EmptyGroups == [k \in {} |-> DefaultGroup]

GroupInit ==
    /\ messages = << >>
    /\ groups = EmptyGroups
    /\ filtered_groups = EmptyGroups
    /\ pc = "loop"
    /\ outcome = "running"

SortIdle ==
    /\ items = << >>
    /\ criteria = "count"
    /\ sorted_items = << >>
    /\ spc = "idle"

QueryIdle ==
    /\ query = << >>
    /\ sender_email = << >>
    /\ full_filter_string = << >>
    /\ search_url = << >>
    /\ qpc = "idle"

Init == GroupInit /\ SortIdle /\ QueryIdle

Next == ProcessMessage \/ FilterGroups \/ MainCheck

Spec == Init /\ [][Next]_vars

----------------------------------------------------------------------------
(* sort_groups *)

\* datetime.min.replace(tzinfo=timezone.utc)
DatetimeMin == 0

\* `item[1]['latest_date'] or datetime.min.replace(tzinfo=timezone.utc)`
DateOrMin(data) == IF data.latest_date = None THEN DatetimeMin ELSE data.latest_date[1]

\* The key lambdas: (count, date) for 'count' and any other value, (date, count) for 'date'
SortKey(item, crit) ==
    IF crit = "date"
    THEN <<DateOrMin(item.data), item.data.count>>
    ELSE <<item.data.count, DateOrMin(item.data)>>

\* Python's tuple comparison
TupleLess(a, b) == a[1] < b[1] \/ (a[1] = b[1] /\ a[2] < b[2])

\* Variant: reverse=True left out
PrecedesAscending(kx, ky) == TupleLess(kx, ky)

\* Whether x goes before y in the result of sorted(..., reverse=True)
Precedes(kx, ky) == TupleLess(ky, kx)

\* sorted(..., reverse=True) is stable: equal keys keep their input order
RECURSIVE InsertSorted(_, _, _)
InsertSorted(x, done, crit) ==
    IF done = << >> THEN <<x>>
    ELSE IF Precedes(SortKey(x, crit), SortKey(done[1], crit))
    THEN <<x>> \o done
    ELSE <<done[1]>> \o InsertSorted(x, Tail(done), crit)

RECURSIVE SortedFrom(_, _, _)
SortedFrom(todo, done, crit) ==
    IF todo = << >> THEN done
    ELSE SortedFrom(Tail(todo), InsertSorted(todo[1], done, crit), crit)

sort_groups(grps, crit) == SortedFrom(grps, << >>, crit)

CountValues == {1, 3, 5}
DateValues == {None} \cup {Some(d) : d \in DatetimeMin..MaxDate}
Criteria == {"count", "date", "recent"}

SortData == [count : CountValues, latest_date : DateValues]

\* groups.items(): distinct senders (numbered by dict position), any aggregates
ItemLists(n) ==
    { [i \in 1..n |-> [sender |-> i, data |-> d[i]]] : d \in [1..n -> SortData] }

SortCall ==
    /\ spc = "call"
    /\ sorted_items' = sort_groups(items, criteria)
    /\ spc' = "sorted"
    /\ UNCHANGED <<items, criteria, groupVars, queryVars>>

GroupIdle ==
    /\ messages = << >>
    /\ groups = EmptyGroups
    /\ filtered_groups = EmptyGroups
    /\ pc = "idle"
    /\ outcome = "idle"

SortInit ==
    /\ \E n \in 0..MaxGroups : items \in ItemLists(n)
    /\ criteria \in Criteria
    /\ sorted_items = << >>
    /\ spc = "call"

InitSort == GroupIdle /\ SortInit /\ QueryIdle

NextSort == SortCall

SpecSort == InitSort /\ [][NextSort]_vars

----------------------------------------------------------------------------
(* generate_filter_query and main's search URL.  A string is a sequence of   *)
(* one-character strings; the URL is its fixed prefix followed by the        *)
(* characters of the encoded query.                                          *)

\* f"from:({sender_email})"
generate_filter_query(email) == <<"f", "r", "o", "m", ":", "(">> \o email \o <<")">>

\* The characters urllib.parse.quote_plus leaves alone: letters, digits, '_.-~'
SafeChars == {"a", "b", "f", "i", "m", "o", "r", "0", "2", "3", "4", "5", "8", "9",
              "A", "B", "_", ".", "-", "~"}

\* The two hex digits of a character's byte
HexOf(c) ==
    CASE c = " " -> <<"2", "0">>
      [] c = "%" -> <<"2", "5">>
      [] c = "(" -> <<"2", "8">>
      [] c = ")" -> <<"2", "9">>
      [] c = "+" -> <<"2", "B">>
      [] c = ":" -> <<"3", "A">>
      [] c = "@" -> <<"4", "0">>

\* Variant: '+' treated as a safe character
QuotePlusCharPlusSafe(c) ==
    IF c \in SafeChars \cup {"+"} THEN <<c>>
    ELSE IF c = " " THEN <<"+">>
    ELSE <<"%">> \o HexOf(c)

\* urllib.parse.quote_plus on one character
QuotePlusChar(c) ==
    IF c \in SafeChars THEN <<c>>
    ELSE IF c = " " THEN <<"+">>
    ELSE <<"%">> \o HexOf(c)

RECURSIVE quote_plus(_)
quote_plus(s) ==
    IF s = << >> THEN << >> ELSE QuotePlusChar(s[1]) \o quote_plus(Tail(s))

SearchPrefix == "https://mail.google.com/mail/u/0/#search/"

\* Lines 279-282 for one entry
FullFilterString(q, email) == q \o <<" ">> \o generate_filter_query(email)

SearchUrl(full) == <<SearchPrefix>> \o quote_plus(full)

QueryChars == {"a", ":", " ", "+", "%", "2", "0"}
Queries == UNION { [1..n -> QueryChars] : n \in 0..MaxQueryLen }
SenderEmails == { <<"f", "@", "b", ".", "m">>, <<"f", "+", "a", "@", "b">> }

GenerateUrl ==
    /\ qpc = "entry"
    /\ full_filter_string' = FullFilterString(query, sender_email)
    /\ search_url' = SearchUrl(FullFilterString(query, sender_email))
    /\ qpc' = "generated"
    /\ UNCHANGED <<query, sender_email, groupVars, sortVars>>

QueryInit ==
    /\ query \in Queries
    /\ sender_email \in SenderEmails
    /\ full_filter_string = << >>
    /\ search_url = << >>
    /\ qpc = "entry"

InitQuery == GroupIdle /\ SortIdle /\ QueryInit

NextQuery == GenerateUrl

SpecQuery == InitQuery /\ [][NextQuery]_vars

----------------------------------------------------------------------------
(* What the consumed messages say, for stating the properties *)

LastMsg == messages[Len(messages)]

\* The locals of the header loop, for every message of the universe
Locals == [msg \in Msgs |-> HeaderLoop(msg)]

\* The message got past the header loop and has a sender key
Attributed(msg) ==
    /\ ~Locals[msg].raised
    /\ ~NotSenderEmail(Locals[msg].sender_email)

KeyOfMsg(msg) == Locals[msg].sender_email[1]

Members(k) ==
    {i \in 1..Len(messages) : Attributed(messages[i]) /\ KeyOfMsg(messages[i]) = k}

ParsedMembers(k) == {i \in Members(k) : DateParses(messages[i].date)}

Instant(i) == messages[i].date.wall - messages[i].date.offset

\* The member with the greatest parsed date, the first processed among equals
Winner(k) ==
    CHOOSE i \in ParsedMembers(k) :
        \A j \in ParsedMembers(k) :
            Instant(j) < Instant(i) \/ (Instant(j) = Instant(i) /\ i <= j)

RECURSIVE SumCounts(_, _)
SumCounts(g, keys) ==
    IF keys = {} THEN 0
    ELSE LET k == CHOOSE x \in keys : TRUE
         IN  g[k].count + SumCounts(g, keys \ {k})

Returned == pc \in {"returned", "done"}

----------------------------------------------------------------------------
(* C1: a group is in the mapping group_emails returns iff one of its        *)
(* messages carried List-Unsubscribe or it has more than one message; a     *)
(* sender with one message and no List-Unsubscribe is never in it.          *)
C1_FilterLaw ==
    Returned =>
        /\ DOMAIN filtered_groups \subseteq DOMAIN groups
        /\ \A k \in DOMAIN groups :
              /\ k \in DOMAIN filtered_groups <=>
                    (groups[k].has_list_unsubscribe = TRUE \/ groups[k].count > 1)
              /\ k \in DOMAIN filtered_groups <=>
                    \/ \E i \in Members(k) : messages[i].unsub
                    \/ Cardinality(Members(k)) > 1
              /\ k \in DOMAIN filtered_groups => filtered_groups[k] = groups[k]

C1_Witness ==
    /\ pc = "returned"
    /\ \E k \in DOMAIN groups : k \in DOMAIN filtered_groups /\ groups[k].count = 1
    /\ \E k \in DOMAIN groups : k \notin DOMAIN filtered_groups

(* C2 as stated: the counts of the groups group_emails returns sum to the   *)
(* number of messages that were not dropped for a missing sender.           *)
C2_ReturnedCountsSum ==
    Returned =>
        SumCounts(filtered_groups, DOMAIN filtered_groups)
            = Cardinality({i \in 1..Len(messages) : Attributed(messages[i])})

(* C2 amended: the counts of the groups accumulated before the post-pass    *)
(* filter sum to the number of messages not dropped; the returned mapping   *)
(* falls short of it by one for every sender filtered out.                  *)
C2_AccumulatedCountsSum ==
    /\ pc \in {"loop", "returned", "done"} =>
          SumCounts(groups, DOMAIN groups)
            = Cardinality({i \in 1..Len(messages) : Attributed(messages[i])})
    /\ Returned =>
          SumCounts(filtered_groups, DOMAIN filtered_groups)
            = Cardinality({i \in 1..Len(messages) : Attributed(messages[i])})
              - Cardinality(DOMAIN groups \ DOMAIN filtered_groups)

C2_Witness ==
    /\ pc = "returned"
    /\ Len(messages) = 2
    /\ \E i \in 1..2 : ~Attributed(messages[i])
    /\ DOMAIN groups # {}
    /\ DOMAIN filtered_groups = {}

(* C3: after any prefix, a group's latest_date, subject and sender_display  *)
(* are all unset or all set, and when set they are the parsed date, decoded *)
(* subject and decoded From of the member with the greatest parsed date,    *)
(* the first processed one among equals.                                    *)
C3_LatestFieldsInSync ==
    \A k \in DOMAIN groups :
        LET g == groups[k] IN
        /\ (g.latest_date = None) = (g.subject = None)
        /\ (g.latest_date = None) = (g.sender_display = None)
        /\ IF ParsedMembers(k) = {}
           THEN g.latest_date = None
           ELSE LET w == messages[Winner(k)] IN
                /\ g.latest_date = Some(w.date.wall - w.date.offset)
                /\ g.subject = Some(Locals[w].subject)
                /\ g.sender_display = Some(Locals[w].sender)

C3_Witness ==
    /\ pc = "loop"
    /\ \E k \in DOMAIN groups :
          /\ Cardinality(ParsedMembers(k)) = 2
          /\ Winner(k) = 2
          /\ groups[k].latest_date = Some(2)
          /\ groups[k].sender_display = Some(<<"Bobby", " ", "<", "a@x.com", ">">>)
          /\ groups[k].subject = Some(NoSubject)
          /\ Locals[messages[1]].sender = <<"Bob", " ", "<", "a@x.com", ">">>

----------------------------------------------------------------------------
\* A(count=5, 2024-01-01), B(count=5, 2024-02-01), C(count=3, 2024-03-01)
ExampleItems ==
    << [sender |-> 1, data |-> [count |-> 5, latest_date |-> Some(1)]],
       [sender |-> 2, data |-> [count |-> 5, latest_date |-> Some(2)]],
       [sender |-> 3, data |-> [count |-> 3, latest_date |-> Some(3)]] >>

\* An absent latest_date counts as the least timestamp there is
ClaimedDate(item) ==
    IF item.data.latest_date = None THEN DatetimeMin ELSE item.data.latest_date[1]

PairGeq(a1, a2, b1, b2) == a1 > b1 \/ (a1 = b1 /\ a2 >= b2)

(* C4: sort_groups returns a permutation of its input in which (count,     *)
(* latest_date) for criteria count, and (latest_date, count) for criteria   *)
(* date, never increases, an absent date counting as the least timestamp;   *)
(* A, B, C of the example rank [B, A, C] by count and [C, B, A] by date.     *)
C4_SortOrder ==
    spc = "sorted" =>
        /\ Len(sorted_items) = Len(items)
        /\ \A i \in 1..Len(items) : \E j \in 1..Len(sorted_items) :
              sorted_items[j] = items[i]
        /\ \A i, j \in 1..Len(sorted_items) :
              i < j =>
                LET x == sorted_items[i]
                    y == sorted_items[j]
                IN  /\ criteria = "count" =>
                          PairGeq(x.data.count, ClaimedDate(x),
                                  y.data.count, ClaimedDate(y))
                    /\ criteria = "date" =>
                          PairGeq(ClaimedDate(x), x.data.count,
                                  ClaimedDate(y), y.data.count)
        /\ (items = ExampleItems /\ criteria = "count") =>
              [i \in 1..3 |-> sorted_items[i].sender] = <<2, 1, 3>>
        /\ (items = ExampleItems /\ criteria = "date") =>
              [i \in 1..3 |-> sorted_items[i].sender] = <<3, 2, 1>>

C4_Witness ==
    /\ spc = "sorted"
    /\ items = ExampleItems
    /\ criteria = "count"
    /\ [i \in 1..3 |-> sorted_items[i].sender] = <<2, 1, 3>>

----------------------------------------------------------------------------
(* Decoding a URL fragment *)

HexDigits == {"0", "2", "3", "4", "5", "8", "9", "A", "B", "a", "b", "f"}

CharOfHex(h) ==
    CASE h = <<"2", "0">> -> " "
      [] h = <<"2", "5">> -> "%"
      [] h = <<"2", "8">> -> "("
      [] h = <<"2", "9">> -> ")"
      [] h = <<"2", "B">> -> "+"
      [] h = <<"3", "A">> -> ":"
      [] h = <<"4", "0">> -> "@"
      [] OTHER -> "?"

\* Percent-decoding: every %XY becomes its character, the rest stays
RECURSIVE Unquote(_)
Unquote(s) ==
    IF s = << >> THEN << >>
    ELSE IF s[1] = "%" /\ Len(s) >= 3 /\ s[2] \in HexDigits /\ s[3] \in HexDigits
    THEN <<CharOfHex(<<s[2], s[3]>>)>> \o Unquote(SubSeq(s, 4, Len(s)))
    ELSE <<s[1]>> \o Unquote(Tail(s))

\* Form decoding: '+' is a space, then percent-decoding
UnquotePlus(s) == Unquote([i \in 1..Len(s) |-> IF s[i] = "+" THEN " " ELSE s[i]])

\* Percent-encoding with the space percent-encoded too
RECURSIVE PercentEncode(_)
PercentEncode(s) ==
    IF s = << >> THEN << >>
    ELSE (IF s[1] \in SafeChars THEN <<s[1]>> ELSE <<"%">> \o HexOf(s[1]))
         \o PercentEncode(Tail(s))

Fragment == Tail(search_url)

CountOf(s, c) == Cardinality({i \in 1..Len(s) : s[i] = c})

ExpectedFullFilter ==
    query \o <<" ", "f", "r", "o", "m", ":", "(">> \o sender_email \o <<")">>

----------------------------------------------------------------------------
LowerToken(t) ==
    CASE t = "A@x.com" -> "a@x.com"
      [] t = "Bob" -> "bob"
      [] t = "Bobby" -> "bobby"
      [] OTHER -> t

Lower(text) == [i \in 1..Len(text) |-> LowerToken(text[i])]

(* C6: group keys are lower-cased and unique: messages whose sender         *)
(* addresses differ only in letter case share one group, and no two keys    *)
(* are equal after lower-casing.                                            *)
C6_LowerCasedKeys ==
    /\ \A k \in DOMAIN groups : Lower(k) = k
    /\ \A k1, k2 \in DOMAIN groups : Lower(k1) = Lower(k2) => k1 = k2
    /\ \A i, j \in 1..Len(messages) :
          (Attributed(messages[i]) /\ Attributed(messages[j])
             /\ Lower(KeyOfMsg(messages[i])) = Lower(KeyOfMsg(messages[j])))
          => \E k \in DOMAIN groups : {i, j} \subseteq Members(k)

\* A From or Subject header of the message does not decode
DecodeFails(msg) ==
    \/ msg.has_from /\ decode_email_header(msg.from).raised
    \/ msg.has_subject /\ decode_email_header(msg.subject).raised

(* C7: when the From or Subject header of a message fails to decode,        *)
(* group_emails does not abort: the message and those after it are          *)
(* processed and a result is returned.                                      *)
C7_DecodeFailureDoesNotAbort ==
    (messages # << >> /\ DecodeFails(LastMsg)) => pc # "raised"

\* The step consumed one more message
Consumed == pc = "loop" /\ Len(messages') = Len(messages) + 1

NewMsg == messages'[Len(messages')]

UnparsableDate(msg) == msg.date.present /\ ~msg.date.parsable

\* The sender key the From header of the message yields
HasSenderKey(msg) == ~NotSenderEmail(Locals[msg].sender_email)

DateFrame(msg) ==
    LET k == KeyOfMsg(msg)
        old == GroupOf(groups, k)
    IN  /\ pc' = "loop"
        /\ k \in DOMAIN groups'
        /\ groups'[k].count = old.count + 1
        /\ groups'[k].ids = Append(old.ids, Len(messages'))
        /\ groups'[k].latest_date = old.latest_date
        /\ groups'[k].subject = old.subject
        /\ groups'[k].sender_display = old.sender_display

(* C8: processing a message whose Date header is present but unparsable     *)
(* adds one to its group's count, appends its id, leaves the group's        *)
(* latest_date, subject and sender_display as they were, and no exception   *)
(* escapes.                                                                 *)
C8_UnparsableDateFrame ==
    [][(Consumed /\ UnparsableDate(NewMsg) /\ HasSenderKey(NewMsg))
          => DateFrame(NewMsg)]_vars

\* The same for the messages whose From and Subject headers decode
C8_FrameWhenDecoded ==
    [][(Consumed /\ UnparsableDate(NewMsg) /\ HasSenderKey(NewMsg)
          /\ ~DecodeFails(NewMsg))
          => DateFrame(NewMsg)]_vars

\* No From header, or a From header with an empty value
NoSender(msg) == ~msg.has_from \/ msg.from = FromEmpty

(* C9: a message with no From header or an empty From value is skipped: no  *)
(* group is created or changed, its id is in no group's ids, and the loop   *)
(* goes on to the next message.                                             *)
C9_MissingSenderSkipped ==
    [][(Consumed /\ NoSender(NewMsg))
          => /\ groups' = groups
             /\ pc' = "loop"
             /\ \A k \in DOMAIN groups' :
                   \A n \in 1..Len(groups'[k].ids) :
                       groups'[k].ids[n] # Len(messages')]_vars

\* The same for the messages whose Subject header decodes
C9_SkippedWhenDecoded ==
    [][(Consumed /\ NoSender(NewMsg) /\ ~DecodeFails(NewMsg))
          => /\ groups' = groups
             /\ pc' = "loop"]_vars

(* C10: when every message of a non-empty input is dropped, main ends in    *)
(* an error result, not in the result it gives for usable input without     *)
(* newsletter candidates.                                                   *)
C10_UnusableInputIsError ==
    (/\ pc = "done"
     /\ messages # << >>
     /\ \A i \in 1..Len(messages) : ~HasSenderKey(messages[i]))
    => (outcome = "error" /\ outcome # "no_newsletters")

====
